---- MODULE Spec2Model ----
(***************************************************************************)
(* Model of the CMG waste-collection integration:                          *)
(*   api.py       WasteCollectionAPI (period selection, schedule parser,   *)
(*                update with last-known-good cache)                       *)
(*   __init__.py  async_update_data (the refresh of the coordinator)       *)
(*                                                                         *)
(* Python values are represented as follows.                               *)
(*   None / Optional      <<>> is None, <<x>> is the value x               *)
(*   dict (ordered)       a sequence of records [k |-> key, v |-> value]   *)
(*                        in insertion order                               *)
(*   "YYYY-MM-DD" string  the triple <<YYYY, MM, DD>>                       *)
(*   result of a call     [exc |-> name of the exception or "none",        *)
(*                         val |-> the returned value]                     *)
(***************************************************************************)
EXTENDS Integers, Sequences, FiniteSets, TLC

\* ----------------------------------------------------------------------
\* Bounds of the model
\* ----------------------------------------------------------------------

\* longest period list the provider returns in the period-selection runs
MaxPeriods == 2

\* most day tokens in the ';'-list of a generated schedule row
MaxDays == 2

\* the requests of one invocation of a wizard step are counted up to here
MaxCounted == 4

\* ----------------------------------------------------------------------
\* Python helpers
\* ----------------------------------------------------------------------

None == <<>>

Some(x) == <<x>>

\* all sequences over S of length at most n
SeqUpTo(S, n) == UNION {[1..k -> S] : k \in 0..n}

Range(s) == {s[i] : i \in 1..Len(s)}

\* datetime.strptime(s, '%Y-%m-%d'): the date string becomes a value that is
\* ordered by calendar order
strptime(s) == (s[1] * 12 + (s[2] - 1)) * 31 + (s[3] - 1)

\* a call that returned v / a call that raised exception e
Ret(v) == [exc |-> "none", val |-> v]

Raise(e) == [exc |-> e, val |-> None]

\* ----------------------------------------------------------------------
\* HTTP responses of the provider
\* ----------------------------------------------------------------------

\* A response is either a transport failure (requests.RequestException from
\* the session call or raise_for_status) or a JSON envelope
\* {success, data}; has_data tells whether the 'data' key is present.
TransportFailure == [kind |-> "transport_error"]

Envelope(success, has_data, data) ==
    [kind |-> "json", success |-> success, has_data |-> has_data, data |-> data]

\* ----------------------------------------------------------------------
\* api.py: get_schedule_periods, get_current_period
\* ----------------------------------------------------------------------

get_schedule_periods(resp) ==
    IF resp.kind = "transport_error" THEN Raise("RequestException")
    ELSE IF resp.success
         THEN IF resp.has_data THEN Ret(resp.data) ELSE Raise("KeyError")
         ELSE Ret(<<>>)


\* PeriodContains with the start date excluded
PeriodContains_StartExcluded(p, today) ==
    strptime(p.startDate) < strptime(today) /\ strptime(today) <= strptime(p.endDate)

PeriodContains(p, today) ==
    strptime(p.startDate) <= strptime(today) /\ strptime(today) <= strptime(p.endDate)

PeriodIsPast(p, today) == strptime(p.endDate) < strptime(today)

PeriodEndKey(p) == strptime(p.endDate)

PeriodStartKey(p) == strptime(p.startDate)

\* lines 121-130: the first listed period that contains today
ContainingPeriod(periods, today) ==
    LET containing == SelectSeq(periods, LAMBDA p : PeriodContains(p, today))
    IN  IF containing # <<>> THEN Some(Head(containing)) ELSE None


\* MostRecentPast without reverse=True: the oldest past period
MostRecentPast_Oldest(past_periods) ==
    LET i == CHOOSE j \in 1..Len(past_periods) :
                 /\ \A k \in 1..Len(past_periods) :
                        PeriodEndKey(past_periods[j]) <= PeriodEndKey(past_periods[k])
                 /\ \A k \in 1..(j - 1) :
                        PeriodEndKey(past_periods[k]) # PeriodEndKey(past_periods[j])
    IN  past_periods[i]

\* lines 141-151: sorted(past_periods, key=end date, reverse=True)[0]; the
\* sort is stable also when reversed, so this is the first period in list
\* order among those with the greatest end date
MostRecentPast(past_periods) ==
    LET i == CHOOSE j \in 1..Len(past_periods) :
                 /\ \A k \in 1..Len(past_periods) :
                        PeriodEndKey(past_periods[j]) >= PeriodEndKey(past_periods[k])
                 /\ \A k \in 1..(j - 1) :
                        PeriodEndKey(past_periods[k]) # PeriodEndKey(past_periods[j])
    IN  past_periods[i]

\* lines 153-162: sorted(periods, key=start date)[0], the first period in
\* list order among those with the least start date
EarliestPeriod(periods) ==
    LET i == CHOOSE j \in 1..Len(periods) :
                 /\ \A k \in 1..Len(periods) :
                        PeriodStartKey(periods[j]) <= PeriodStartKey(periods[k])
                 /\ \A k \in 1..(j - 1) :
                        PeriodStartKey(periods[k]) # PeriodStartKey(periods[j])
    IN  periods[i]


\* FallbackPeriod without the branch for future periods
FallbackPeriod_NoFuture(periods, today) ==
    LET past_periods == SelectSeq(periods, LAMBDA p : PeriodIsPast(p, today))
    IN  IF past_periods # <<>>
        THEN Some(MostRecentPast(past_periods))
        ELSE None

\* lines 132-164: no period contains today
FallbackPeriod(periods, today) ==
    LET past_periods == SelectSeq(periods, LAMBDA p : PeriodIsPast(p, today))
    IN  IF periods # <<>>
        THEN IF past_periods # <<>>
             THEN Some(MostRecentPast(past_periods))
             ELSE Some(EarliestPeriod(periods))
        ELSE None

get_current_period(resp, today) ==
    LET r == get_schedule_periods(resp)
    IN  IF r.exc # "none" THEN Raise(r.exc)
        ELSE IF ContainingPeriod(r.val, today) # None
             THEN Ret(ContainingPeriod(r.val, today))
             ELSE Ret(FallbackPeriod(r.val, today))

\* the value of the field id of a period object that has no key 'id'
Missing == "<no key>"

\* lines 116-119: with self.debug set, the periods are listed for the log
\* with p['id'], p['startDate'], p['endDate'] of every period
DebugListingRaises(periods) == \E i \in 1..Len(periods) : periods[i].id = Missing

\* get_current_period of an API object created with debug=True
get_current_period_debug(resp, today) ==
    LET r == get_schedule_periods(resp)
    IN  IF r.exc # "none" THEN Raise(r.exc)
        ELSE IF DebugListingRaises(r.val) THEN Raise("KeyError")
        ELSE get_current_period(resp, today)

\* ----------------------------------------------------------------------
\* Ordered dicts
\* ----------------------------------------------------------------------

DictKeys(d) == {d[i].k : i \in 1..Len(d)}

DictHas(d, key) == \E i \in 1..Len(d) : d[i].k = key

DictGet(d, key) == d[CHOOSE i \in 1..Len(d) : d[i].k = key].v

\* d[key] = value: an existing key keeps its position
DictSet(d, key, value) ==
    IF DictHas(d, key)
    THEN [i \in 1..Len(d) |-> IF d[i].k = key THEN [k |-> key, v |-> value] ELSE d[i]]
    ELSE Append(d, [k |-> key, v |-> value])

\* ----------------------------------------------------------------------
\* api.py: get_waste_types, parse_schedule
\* ----------------------------------------------------------------------

\* The raw payload is the dict data['data'] of the schedules endpoint:
\* keys is the set of keys present, {} is the payload with no key.
RawPayload(keys, schedules, descs) ==
    [keys |-> keys, schedules |-> schedules, scheduleDescription |-> descs]

EmptyDict == RawPayload({}, <<>>, <<>>)

get_waste_types(resp) ==
    IF resp.kind = "transport_error" THEN Raise("RequestException")
    ELSE IF resp.success
         THEN IF resp.has_data THEN Ret(resp.data) ELSE Raise("KeyError")
         ELSE Ret(EmptyDict)

\* Texts of the payload.  A name is the pair <<padding, text>>: the text
\* surrounded by padding blanks; strip() removes the padding.
strip(name) == name[2]

\* A day, month or year text is encoded as an integer: NonNumeric stands for
\* a text int() rejects ("abc"), Blank for the empty or all-blank text, Huge
\* for the decimal text of an integer that does not fit a C int
\* ("2147483648"), any other integer n for the decimal text of n.
NonNumeric == -99

Blank == -98

Huge == -97

IsInt(tok) == tok # NonNumeric /\ tok # Blank

\* line 474: datetime() converts its arguments to C ints before it checks
\* their ranges and raises OverflowError for one that does not fit
FitsCInt(n) == n # Huge

IsLeap(y) == y % 4 = 0 /\ (y % 100 # 0 \/ y % 400 = 0)

DaysInMonth(y, m) ==
    IF m = 2 THEN (IF IsLeap(y) THEN 29 ELSE 28)
    ELSE IF m \in {4, 6, 9, 11} THEN 30 ELSE 31

\* datetime(y, m, d) raises ValueError unless the triple is a calendar date
ValidDate(y, m, d) ==
    /\ y >= 1 /\ y <= 9999
    /\ m >= 1 /\ m <= 12
    /\ d >= 1 /\ d <= DaysInMonth(y, m)

\* order of datetime values
DateOrd(d) == (d[1] * 12 + (d[2] - 1)) * 31 + (d[3] - 1)

\* sorted(set(xs)) for a list of datetimes
RECURSIVE SortedSet(_)
SortedSet(S) ==
    IF S = {} THEN <<>>
    ELSE LET m == CHOOSE x \in S : \A y \in S : DateOrd(x) <= DateOrd(y)
         IN  <<m>> \o SortedSet(S \ {m})

\* descriptions_by_id that keeps the rows with a blank name
RECURSIVE descriptions_by_id_KeepBlank(_)
descriptions_by_id_KeepBlank(descriptions_list) ==
    IF descriptions_list = <<>> THEN <<>>
    ELSE LET n == Len(descriptions_list)
             desc == descriptions_list[n]
             before == descriptions_by_id_KeepBlank(SubSeq(descriptions_list, 1, n - 1))
         IN  IF desc.id # ""
             THEN DictSet(before, desc.id,
                          [name |-> strip(desc.name), color |-> desc.color])
             ELSE before

\* lines 430-442: the description index keyed by id
RECURSIVE descriptions_by_id(_)
descriptions_by_id(descriptions_list) ==
    IF descriptions_list = <<>> THEN <<>>
    ELSE LET n == Len(descriptions_list)
             desc == descriptions_list[n]
             before == descriptions_by_id(SubSeq(descriptions_list, 1, n - 1))
         IN  IF desc.id # "" /\ strip(desc.name) # ""
             THEN DictSet(before, desc.id,
                          [name |-> strip(desc.name), color |-> desc.color])
             ELSE before


\* RowDates that reads only the first token of the ';'-list
RowDates_FirstDayOnly(item) ==
    IF item.month # Blank /\ item.month # 0 /\ item.year # Blank /\ item.year # 0
       /\ item.days # <<>>
       /\ IsInt(item.month) /\ IsInt(item.year)
    THEN SelectSeq(
           <<<<item.year, item.month, item.days[1]>>>>,
           LAMBDA d : IsInt(d[3]) /\ ValidDate(d[1], d[2], d[3]))
    ELSE <<>>

\* lines 464-479: the dates one schedule row contributes
RowDates(item) ==
    IF item.month # Blank /\ item.month # 0 /\ item.year # Blank /\ item.year # 0
       /\ item.days # <<>>
       /\ IsInt(item.month) /\ IsInt(item.year)
    THEN SelectSeq(
           [i \in 1..Len(item.days) |-> <<item.year, item.month, item.days[i]>>],
           LAMBDA d : IsInt(d[3]) /\ ValidDate(d[1], d[2], d[3]))
    ELSE <<>>

\* lines 464-479: the row reaches datetime() with an argument that does not
\* fit a C int; neither except clause (ValueError, TypeError) catches the
\* OverflowError
RowOverflows(item) ==
    /\ item.month # Blank /\ item.month # 0 /\ item.year # Blank /\ item.year # 0
    /\ item.days # <<>>
    /\ IsInt(item.month) /\ IsInt(item.year)
    /\ \E i \in 1..Len(item.days) :
          /\ IsInt(item.days[i])
          /\ ~(FitsCInt(item.year) /\ FitsCInt(item.month) /\ FitsCInt(item.days[i]))

\* AccumulateSchedule in which a row replaces the dates of its category
RECURSIVE AccumulateSchedule_Overwrite(_, _)
AccumulateSchedule_Overwrite(schedules, by_id) ==
    IF schedules = <<>> THEN <<>>
    ELSE LET n == Len(schedules)
             item == schedules[n]
             before == AccumulateSchedule_Overwrite(SubSeq(schedules, 1, n - 1), by_id)
         IN  IF ~DictHas(by_id, item.scheduleDescriptionId) THEN before
             ELSE LET waste_name == DictGet(by_id, item.scheduleDescriptionId).name
                  IN  DictSet(before, waste_name, RowDates(item))

\* lines 446-479: dates accumulated per category name, unsorted
RECURSIVE AccumulateSchedule(_, _)
AccumulateSchedule(schedules, by_id) ==
    IF schedules = <<>> THEN <<>>
    ELSE LET n == Len(schedules)
             item == schedules[n]
             before == AccumulateSchedule(SubSeq(schedules, 1, n - 1), by_id)
         IN  IF ~DictHas(by_id, item.scheduleDescriptionId) THEN before
             ELSE LET waste_name == DictGet(by_id, item.scheduleDescriptionId).name
                      old == IF DictHas(before, waste_name)
                             THEN DictGet(before, waste_name) ELSE <<>>
                  IN  DictSet(before, waste_name, old \o RowDates(item))


\* SortSchedule with sorted(..., reverse=True)
SortSchedule_Descending(waste_schedule) ==
    [i \in 1..Len(waste_schedule) |->
        [k |-> waste_schedule[i].k,
         v |-> LET asc == SortedSet(Range(waste_schedule[i].v))
               IN  [j \in 1..Len(asc) |-> asc[Len(asc) + 1 - j]]]]

\* lines 481-483
SortSchedule(waste_schedule) ==
    [i \in 1..Len(waste_schedule) |->
        [k |-> waste_schedule[i].k, v |-> SortedSet(Range(waste_schedule[i].v))]]

\* lines 490-503: for each scheduled name the first description with it
FinalDescriptions(waste_schedule, by_id) ==
    LET FirstWithName(name) ==
            by_id[CHOOSE i \in 1..Len(by_id) :
                      /\ by_id[i].v.name = name
                      /\ \A j \in 1..(i - 1) : by_id[j].v.name # name]
    IN  [i \in 1..Len(waste_schedule) |->
            [k |-> waste_schedule[i].k,
             v |-> [id |-> FirstWithName(waste_schedule[i].k).k,
                    color |-> FirstWithName(waste_schedule[i].k).v.color]]]

\* FilterSelected that filters the descriptions only
FilterSelected_DescriptionsOnly(waste_schedule, descriptions, selected_type_ids) ==
    IF selected_type_ids # <<>>
    THEN <<waste_schedule,
           SelectSeq(descriptions, LAMBDA e : e.v.id \in Range(selected_type_ids))>>
    ELSE <<waste_schedule, descriptions>>

\* lines 505-515: selected_type_ids is a list; None and [] are both falsy
FilterSelected(waste_schedule, descriptions, selected_type_ids) ==
    IF selected_type_ids # <<>>
    THEN LET kept == SelectSeq(descriptions,
                               LAMBDA e : e.v.id \in Range(selected_type_ids))
         IN  <<SelectSeq(waste_schedule, LAMBDA e : DictHas(kept, e.k)), kept>>
    ELSE <<waste_schedule, descriptions>>

\* The value parse_schedule returns, if it returns; it also stores it in the
\* cache (lines 517-518), see ParseCall.
parse_schedule(raw_data, selected_type_ids) ==
    LET schedules == IF "schedules" \in raw_data.keys
                     THEN raw_data.schedules ELSE <<>>
        descriptions_list == IF "scheduleDescription" \in raw_data.keys
                             THEN raw_data.scheduleDescription ELSE <<>>
        by_id == descriptions_by_id(descriptions_list)
        waste_schedule == SortSchedule(AccumulateSchedule(schedules, by_id))
        descriptions == FinalDescriptions(waste_schedule, by_id)
    IN  FilterSelected(waste_schedule, descriptions, selected_type_ids)

\* lines 448-479: a row of a described category raises OverflowError and
\* parse_schedule ends with it
ParseOverflows(raw_data) ==
    LET schedules == IF "schedules" \in raw_data.keys
                     THEN raw_data.schedules ELSE <<>>
        descriptions_list == IF "scheduleDescription" \in raw_data.keys
                             THEN raw_data.scheduleDescription ELSE <<>>
        by_id == descriptions_by_id(descriptions_list)
    IN  \E i \in 1..Len(schedules) :
            /\ DictHas(by_id, schedules[i].scheduleDescriptionId)
            /\ RowOverflows(schedules[i])

\* ----------------------------------------------------------------------
\* api.py: update
\* ----------------------------------------------------------------------

\* truth value of a cache attribute: None and the empty dict are falsy
Truthy(cache) == cache # None /\ cache[1] # <<>>


\* CacheOrEmpty that never falls back to the caches
CacheOrEmpty_NoFallback(sc, dc) == <<<<>>, <<>>>>

\* lines 559-567 and 575-581: the cached pair if both caches are set and
\* non-empty, else ({}, {})
CacheOrEmpty(sc, dc) ==
    IF Truthy(sc) /\ Truthy(dc) THEN <<sc[1], dc[1]>> ELSE <<<<>>, <<>>>>


\* CacheAfterParse of a parse_schedule that does not store its result
CacheAfterParse_NotStored(sc, dc, parsed) == <<sc, dc>>

\* lines 517-518: parse_schedule stores what it returns
CacheAfterParse(sc, dc, parsed) == <<Some(parsed[1]), Some(parsed[2])>>


\* ParseCall of a parse_schedule that answers from the caches when it parsed
\* nothing
ParseCall_AnswersFromCache(raw_data, selected_type_ids, sc, dc) ==
    IF ParseOverflows(raw_data)
    THEN [result |-> Raise("OverflowError"), sc |-> sc, dc |-> dc]
    ELSE LET parsed == parse_schedule(raw_data, selected_type_ids)
             after == CacheAfterParse(sc, dc, parsed)
         IN  IF parsed[1] = <<>> /\ Truthy(sc) /\ Truthy(dc)
             THEN [result |-> Ret(<<sc[1], dc[1]>>), sc |-> sc, dc |-> dc]
             ELSE [result |-> Ret(parsed), sc |-> after[1], dc |-> after[2]]

\* lines 407-524: a call of the method parse_schedule of an API object whose
\* caches are sc, dc: what the call returns or raises, and the caches after
ParseCall(raw_data, selected_type_ids, sc, dc) ==
    IF ParseOverflows(raw_data)
    THEN [result |-> Raise("OverflowError"), sc |-> sc, dc |-> dc]
    ELSE LET parsed == parse_schedule(raw_data, selected_type_ids)
             after == CacheAfterParse(sc, dc, parsed)
         IN  [result |-> Ret(parsed), sc |-> after[1], dc |-> after[2]]

\* update(...) with the response resp of the schedule request, called with
\* the caches sc, dc: ret is the returned pair, sc and dc the caches after.
\* For the properties, kind tells how the request went and parsed is what
\* parse_schedule returned, if it was called.
update(resp, sc, dc, selected_type_ids) ==
    LET r == get_waste_types(resp)
        raised == r.exc # "none" \/ r.val.keys = {} \/ ParseOverflows(r.val)
        parsed == parse_schedule(r.val, selected_type_ids)
        after == CacheAfterParse(sc, dc, parsed)
    IN  IF raised
        THEN [ret |-> CacheOrEmpty(sc, dc), sc |-> sc, dc |-> dc,
              kind |-> IF r.exc = "RequestException" THEN "transport_error"
                       ELSE IF r.exc # "none" THEN "malformed"
                       ELSE IF r.val.keys = {} THEN "empty_response"
                       ELSE "parse_error",
              parsed |-> None]
        ELSE IF parsed[1] = <<>> \/ parsed[2] = <<>>
             THEN [ret |-> CacheOrEmpty(after[1], after[2]),
                   sc |-> after[1], dc |-> after[2],
                   kind |-> "parsed_empty", parsed |-> Some(parsed)]
             ELSE [ret |-> parsed, sc |-> after[1], dc |-> after[2],
                   kind |-> "parsed", parsed |-> Some(parsed)]

\* ----------------------------------------------------------------------
\* api.py: get_towns, get_streets, get_building_groups
\* ----------------------------------------------------------------------

\* lines 54-80; the data of the envelope is the list data['data']['towns']
get_towns(resp) ==
    IF resp.kind = "transport_error" THEN Raise("RequestException")
    ELSE IF resp.success
         THEN IF resp.has_data THEN Ret(resp.data) ELSE Raise("KeyError")
         ELSE Ret(<<>>)

get_streets(resp) ==
    IF resp.kind = "transport_error" THEN Raise("RequestException")
    ELSE IF resp.success
         THEN IF resp.has_data THEN Ret(resp.data) ELSE Raise("KeyError")
         ELSE Ret(<<>>)

\* data of the streets endpoint: [streets, has_groups, groups]; the value is
\* the triple (groups, groupId, streets)
get_building_groups(resp) ==
    IF resp.kind = "transport_error" THEN Raise("RequestException")
    ELSE IF resp.success /\ resp.has_data /\ resp.data.has_groups
         THEN Ret(<<resp.data.groups, resp.data.groupId, resp.data.streets>>)
         ELSE Ret(<<<<>>, None, <<>>>>)

\* str.lower() on the names the provider and the entry use
lower(s) ==
    CASE s \in {"Main", "MAIN"} -> "main"
      [] s = "Other" -> "other"
      [] s = "Single" -> "single"
      [] OTHER -> s

\* lines 302-308: the first row with empty numbers whose name is name up to
\* case
GeneralStreet(streets_list, name) ==
    LET general == SelectSeq(streets_list,
                       LAMBDA st : lower(st.name) = lower(name) /\ st.numbers = "")
    IN  IF general = <<>> THEN None ELSE Some(Head(general))

\* lines 331-359: the street id for the answer of get_building_groups, None
\* if there is none
RecoveredStreetId(groups, streets, group_name) ==
    LET matching == SelectSeq(groups,
                        LAMBDA g : /\ lower(g.name) = lower(group_name)
                                   /\ g.choosedStreetIds # "")
    IN  IF groups # <<>> /\ matching # <<>>
        THEN Some(Head(matching).choosedStreetIds)
        ELSE IF groups # <<>> /\ groups[1].choosedStreetIds # ""
        THEN Some(groups[1].choosedStreetIds)
        ELSE IF streets # <<>> /\ streets[1].id # ""
        THEN Some(streets[1].id)
        ELSE None

\* lines 293-359, the body of the try block: the new street id or None, or
\* the exception of one of the two requests
RecoveryAttempt(streets_resp, groups_resp, name, group_name) ==
    LET r == get_streets(streets_resp)
        matching_street == GeneralStreet(r.val, name)
        g == get_building_groups(groups_resp)
    IN  IF r.exc # "none" THEN r
        ELSE IF matching_street = None THEN Ret(None)
        ELSE IF matching_street[1].choosedStreetIds = "" THEN Ret(None)
        ELSE IF g.exc # "none" THEN g
        ELSE Ret(RecoveredStreetId(g.val[1], g.val[3], group_name))

\* find_new_street_id without its except clause
find_new_street_id_Propagates(streets_resp, groups_resp, name, group_name) ==
    RecoveryAttempt(streets_resp, groups_resp, name, group_name)

\* lines 267-363, for the answers to its streets request and its
\* building-group request; 'except Exception' turns every exception of the
\* body into the result None
find_new_street_id(streets_resp, groups_resp, name, group_name) ==
    LET attempt == RecoveryAttempt(streets_resp, groups_resp, name, group_name)
    IN  IF attempt.exc # "none" THEN Ret(None) ELSE attempt

\* ----------------------------------------------------------------------
\* What the provider may answer during a refresh
\* ----------------------------------------------------------------------

Date(y, m, d) == <<y, m, d>>

Period(id, start, end) ==
    [id |-> id, startDate |-> start, endDate |-> end, changeDate |-> start]

PeriodA == Period("A", Date(2024, 1, 1), Date(2024, 6, 30))

PeriodB == Period("B", Date(2024, 7, 1), Date(2024, 12, 31))

EngineTodays == {Date(2024, 3, 1), Date(2024, 8, 15)}

EnginePeriodResponses ==
    {TransportFailure, Envelope(FALSE, FALSE, <<>>), Envelope(TRUE, FALSE, <<>>),
     Envelope(TRUE, TRUE, <<PeriodA>>), Envelope(TRUE, TRUE, <<PeriodA, PeriodB>>)}

Street(id, name, choosed, numbers) ==
    [id |-> id, name |-> name, choosedStreetIds |-> choosed, numbers |-> numbers]

EngineStreetResponses ==
    {TransportFailure, Envelope(FALSE, FALSE, <<>>),
     Envelope(TRUE, TRUE, <<Street("s5", "Other", "c5", "")>>),
     Envelope(TRUE, TRUE, <<Street("s1", "Main", "c1", "")>>),
     Envelope(TRUE, TRUE, <<Street("s9", "Main", "c9", "5"), Street("s1", "Main", "c1", "")>>),
     Envelope(TRUE, TRUE, <<Street("s7", "MAIN", "c7", ""), Street("s1", "Main", "c1", "")>>)}

Group(name, choosed) == [name |-> name, choosedStreetIds |-> choosed]

GroupsData(streets, has_groups, groups) ==
    [streets |-> streets, has_groups |-> has_groups, groups |-> groups,
     groupId |-> IF has_groups THEN Some("1") ELSE None]

EngineGroupResponses ==
    {TransportFailure,
     Envelope(TRUE, TRUE, GroupsData(<<[id |-> "s1"]>>, FALSE, <<>>)),
     Envelope(TRUE, TRUE, GroupsData(<<[id |-> "s2"]>>, TRUE, <<>>)),
     Envelope(TRUE, TRUE, GroupsData(<<>>, TRUE,
                  <<Group("multi", "g1"), Group("single", "g2")>>)),
     Envelope(TRUE, TRUE, GroupsData(<<>>, TRUE, <<Group("farm", "g3")>>))}

Desc(id, name, color) == [id |-> id, name |-> name, color |-> color]

Row(id, month, year, days) ==
    [scheduleDescriptionId |-> id, month |-> month, year |-> year, days |-> days]

BothKeys == {"schedules", "scheduleDescription"}

DescOld == <<Desc("1", <<0, "Paper">>, "blue"), Desc("2", <<0, "Glass">>, "green")>>

DescNew == <<Desc("7", <<1, "Paper">>, "blue"), Desc("8", <<0, "Metal">>, "red")>>

PayloadOld ==
    RawPayload(BothKeys, <<Row("1", 1, 2024, <<5, 12>>), Row("2", 1, 2024, <<7>>)>>, DescOld)

PayloadNew ==
    RawPayload(BothKeys,
               <<Row("7", 7, 2024, <<12, 5, 5>>), Row("8", 7, 2024, <<NonNumeric, 9>>)>>,
               DescNew)

PayloadNoRows == RawPayload(BothKeys, <<>>, DescOld)

PayloadNoDates == RawPayload(BothKeys, <<Row("1", 1, 2024, <<NonNumeric>>)>>, DescOld)

EngineScheduleResponses ==
    {TransportFailure, Envelope(FALSE, FALSE, EmptyDict), Envelope(TRUE, FALSE, EmptyDict)}
    \cup {Envelope(TRUE, TRUE, p) :
            p \in {PayloadOld, PayloadNew, PayloadNoRows, PayloadNoDates}}

\* configuration written by the setup wizard (entry.data), read once at setup
street_name == "Main"

InitialSelections == {<<>>, <<"1">>, <<"2", "1">>}

InitialEntries ==
    {[period_id |-> PeriodA.id, period_start |-> PeriodA.startDate,
      period_end |-> PeriodA.endDate, period_change_date |-> PeriodA.changeDate,
      street_id |-> "c1", street_choosed_ids |-> "c1", group_name |-> "single",
      selected_waste_types |-> sel, options_selected_waste_types |-> None] :
        sel \in InitialSelections}

\* ----------------------------------------------------------------------
\* State
\* ----------------------------------------------------------------------

VARIABLES
    schedule_cache,        \* api._schedule_cache
    descriptions_cache,    \* api._descriptions_cache
    entry,                 \* the config entry: entry.data and the selection of entry.options
    coordinator_data,      \* coordinator.data: None or <<schedule, descriptions>>
    last_update_success,   \* coordinator.last_update_success
    force_building_type_refresh,  \* hass.data[DOMAIN][entry_id][...]
    pc,                    \* position of async_update_data
    locals,                \* local variables of async_update_data
    requests,              \* requests issued and entry writes made by the refresh in progress or last ended
    last,                  \* how the last refresh ended, reset when the next one starts
    last_good,             \* the most recent non-empty pair parse_schedule produced on this API instance
    cp,                    \* input of a direct call of get_current_period, its result, and its
                           \* result on an API object with debug=True (verbose)
    call,                  \* the last direct call of a method of the API object and its result
    probe,                 \* an earlier call of parse_schedule and what it returned
    flow                   \* the set-up wizard: its step, self.data and the requests of the
                           \* invocation in progress

\* the variables that record direct calls of the API
direct == <<cp, call, probe, flow>>

vars == <<schedule_cache, descriptions_cache, entry, coordinator_data,
          last_update_success, force_building_type_refresh, pc, locals,
          requests, last, last_good, direct>>

\* errors and period are not variables of the code, they record for the
\* properties at which stages of the refresh a call raised an exception and
\* what get_current_period did ("raised", "nothing" or "found"); streets and
\* groups hold what get_streets and get_building_groups returned, None if
\* the call was not made or raised; trigger tells what started the refresh:
\* "schedule" (set-up or the daily timer) or "button"
NoLocals ==
    [current_period |-> None, period_changed |-> FALSE, force_refresh |-> FALSE,
     current_street_id |-> "", street_choosed_ids |-> "", errors |-> {},
     period |-> "none", streets |-> None, groups |-> None, trigger |-> "schedule"]

\* status, message, ret: how the refresh ended.  The other fields record for
\* the properties what the refresh met:
\*   period     what get_current_period did: "raised", "nothing" or "found"
\*   fetch      how the schedule request went (the kind of update)
\*   errors     the stages at which a call raised an exception
\*   refetched  the period id had changed or a forced refresh was taken
\*   had_cache  both caches were set and non-empty when the refresh began
\*   had_data   coordinator.data was set when the refresh began
\*   prev_ok    had_data, and the refresh before this one had succeeded
NoLast ==
    [status |-> "none", message |-> "", ret |-> None, period |-> "none",
     fetch |-> "none", errors |-> {}, refetched |-> FALSE, had_cache |-> FALSE,
     had_data |-> FALSE, prev_ok |-> FALSE]

NoCall == [called |-> FALSE, resp |-> TransportFailure, today |-> Date(2024, 1, 1),
           result |-> Raise("none"), verbose |-> Raise("none")]

\* supplied tells whether the call passed selected_type_ids (sel is [] if not);
\* resp2 is the answer to the second request of a call that sends two and
\* group_name the argument of that name
NoApiCall ==
    [op |-> "none", raw |-> EmptyDict, supplied |-> FALSE, sel |-> <<>>,
     resp |-> TransportFailure, resp2 |-> TransportFailure, group_name |-> "",
     result |-> Raise("none")]

\* The wizard after the street step, showing the form of the number step.
\* options are the groups offered by the form of the group step; requests
\* counts the requests of the invocation in progress, up to MaxCounted.
NoFlow ==
    [step |-> "form_number", street_choosed_ids |-> "c1", street_id |-> "",
     group_name |-> "", options |-> <<>>, requests |-> 0]

\* async_setup_entry up to the first refresh: a new API object and a new
\* coordinator for the stored entry
Init ==
    /\ schedule_cache = None
    /\ descriptions_cache = None
    /\ entry \in InitialEntries
    /\ coordinator_data = None
    /\ last_update_success = TRUE
    /\ force_building_type_refresh = FALSE
    /\ pc = "idle"
    /\ locals = NoLocals
    /\ requests = <<>>
    /\ last = NoLast
    /\ last_good = None
    /\ cp = NoCall
    /\ call = NoApiCall
    /\ probe = None
    /\ flow = NoFlow

\* ----------------------------------------------------------------------
\* __init__.py: async_update_data, one action per stretch between awaits
\* ----------------------------------------------------------------------

\* The coordinator starts its update method (first refresh of the setup,
\* daily trigger or button press); refreshes of one coordinator do not overlap.
StartRefresh ==
    /\ pc = "idle"
    /\ pc' = "period"
    /\ requests' = <<>>
    /\ locals' = NoLocals
    /\ last' = NoLast
    /\ UNCHANGED <<schedule_cache, descriptions_cache, entry, coordinator_data,
                   last_update_success, force_building_type_refresh, last_good, direct>>

\* button.py, async_press: the refresh button, which exists once the set-up
\* has ended with a successful first refresh, asks the coordinator for a
\* refresh
async_press ==
    /\ pc = "idle"
    /\ coordinator_data # None
    /\ pc' = "period"
    /\ requests' = <<>>
    /\ locals' = [NoLocals EXCEPT !.trigger = "button"]
    /\ last' = NoLast
    /\ UNCHANGED <<schedule_cache, descriptions_cache, entry, coordinator_data,
                   last_update_success, force_building_type_refresh, last_good, direct>>

\* the record of a refresh that ends now
Ended(status, message, ret, period, fetch, errors) ==
    [status |-> status, message |-> message, ret |-> ret, period |-> period,
     fetch |-> fetch, errors |-> errors,
     refetched |-> locals.period_changed \/ locals.force_refresh,
     had_cache |-> Truthy(schedule_cache) /\ Truthy(descriptions_cache),
     had_data |-> coordinator_data # None,
     prev_ok |-> last_update_success /\ coordinator_data # None]

\* raise UpdateFailed(message): the coordinator keeps its data and records
\* the failure
Fail(message, period, fetch, errors) ==
    /\ pc' = "idle"
    /\ locals' = NoLocals
    /\ last_update_success' = FALSE
    /\ last' = Ended("failed", message, None, period, fetch, errors)
    /\ UNCHANGED coordinator_data

\* return schedule, descriptions: the coordinator stores the pair
Succeed(ret, fetch, errors) ==
    /\ pc' = "idle"
    /\ locals' = NoLocals
    /\ last_update_success' = TRUE
    /\ coordinator_data' = Some(ret)
    /\ last' = Ended("ok", "", Some(ret), locals.period, fetch, errors)


\* PeriodChanged that takes every period for a new one
PeriodChanged_Always(current_period, e) == TRUE

\* line 91
PeriodChanged(current_period, e) == current_period.id # e.period_id


\* PeriodStep that goes on with the stored period when there is no current one
PeriodStep_UseStored(r, e, force) ==
    IF r.exc # "none"
    THEN [message |-> "communication", next |-> "idle", locals |-> NoLocals,
          force |-> force]
    ELSE LET period == IF r.val = None
                       THEN Period(e.period_id, e.period_start, e.period_end)
                       ELSE r.val[1]
             period_changed == period.id # e.period_id
         IN  [message |-> "",
              next |-> IF period_changed \/ force THEN "streets" ELSE "fetch",
              locals |-> [current_period |-> Some(period),
                          period_changed |-> period_changed,
                          force_refresh |-> force,
                          current_street_id |-> e.street_id,
                          street_choosed_ids |-> "",
                          errors |-> {},
                          period |-> "none", streets |-> None, groups |-> None,
                          trigger |-> "schedule"],
              force |-> FALSE]

\* lines 72-98: what async_update_data does with the result r of
\* get_current_period, for the stored entry e and the force flag: message is
\* that of the UpdateFailed raised, "" if none is; next is the position after
PeriodStep(r, e, force) ==
    IF r.exc # "none"
    THEN [message |-> "communication", next |-> "idle", locals |-> NoLocals,
          force |-> force]
    ELSE IF r.val = None
    THEN [message |-> "no_period", next |-> "idle", locals |-> NoLocals,
          force |-> force]
    ELSE LET period_changed == PeriodChanged(r.val[1], e)
         IN  [message |-> "",
              next |-> IF period_changed \/ force THEN "streets" ELSE "fetch",
              locals |-> [current_period |-> r.val,
                          period_changed |-> period_changed,
                          force_refresh |-> force,
                          current_street_id |-> e.street_id,
                          street_choosed_ids |-> "",
                          errors |-> {},
                          period |-> "none", streets |-> None, groups |-> None,
                          trigger |-> "schedule"],
              force |-> FALSE]

\* lines 72-98: the period request returns
ResolvePeriod ==
    /\ pc = "period"
    /\ \E resp \in EnginePeriodResponses, today \in EngineTodays :
         LET r == get_current_period(resp, today)
             step == PeriodStep(r, entry, force_building_type_refresh)
             period == IF r.exc # "none" THEN "raised"
                       ELSE IF r.val = None THEN "nothing" ELSE "found"
         IN  /\ requests' = Append(requests, "periods")
             /\ force_building_type_refresh' = step.force
             /\ IF step.message # ""
                THEN Fail(step.message, period, "none",
                          IF r.exc # "none" THEN {"period"} ELSE {})
                ELSE /\ pc' = step.next
                     /\ locals' = [step.locals EXCEPT !.period = period,
                                                      !.trigger = locals.trigger]
                     /\ UNCHANGED <<coordinator_data, last_update_success, last>>
    /\ UNCHANGED <<schedule_cache, descriptions_cache, entry, last_good, direct>>

\* lines 123-128: the first street row with exactly the configured name
MatchingStreet(streets) ==
    LET named == SelectSeq(streets, LAMBDA st : st.name = street_name)
    IN  IF named = <<>> THEN None ELSE Some(Head(named))

\* lines 109-134 and 187-189: the streets request returns
RefetchStreets ==
    /\ pc = "streets"
    /\ \E resp \in EngineStreetResponses :
         LET r == get_streets(resp)
             matching_street == IF r.exc = "none" THEN MatchingStreet(r.val) ELSE None
         IN  /\ requests' = Append(requests, "streets")
             /\ IF matching_street = None
                THEN /\ pc' = "fetch"
                     /\ locals' = IF r.exc # "none"
                                  THEN [locals EXCEPT !.errors = @ \cup {"streets"}]
                                  ELSE [locals EXCEPT !.streets = Some(r.val)]
                ELSE /\ pc' = "groups"
                     /\ locals' = [locals EXCEPT
                                     !.street_choosed_ids =
                                         matching_street[1].choosedStreetIds,
                                     !.streets = Some(r.val)]
    /\ UNCHANGED <<schedule_cache, descriptions_cache, entry, coordinator_data,
                   last_update_success, force_building_type_refresh, last,
                   last_good, direct>>


\* NewStreetId that takes the first group whatever its name
NewStreetId_FirstGroup(groups, group_streets, street_choosed_ids, group_name) ==
    IF groups = <<>>
    THEN IF group_streets # <<>> THEN group_streets[1].id ELSE street_choosed_ids
    ELSE groups[1].choosedStreetIds

\* lines 146-170: the street id for the answer of get_building_groups
NewStreetId(groups, group_streets, street_choosed_ids, group_name) ==
    IF groups = <<>>
    THEN IF group_streets # <<>> THEN group_streets[1].id ELSE street_choosed_ids
    ELSE LET matching == SelectSeq(groups, LAMBDA g : g.name = group_name)
         IN  IF matching # <<>> THEN Head(matching).choosedStreetIds
             ELSE groups[1].choosedStreetIds


\* PersistBaseline that leaves the entry to be written after the fetch
PersistBaseline_Deferred(e, period, street_id, street_choosed_ids) == e

\* lines 172-184: async_update_entry with the new period and the new ids
PersistBaseline(e, period, street_id, street_choosed_ids) ==
    [e EXCEPT !.period_id = period.id,
              !.period_start = period.startDate,
              !.period_end = period.endDate,
              !.period_change_date = period.changeDate,
              !.street_id = street_id,
              !.street_choosed_ids = street_choosed_ids]

\* lines 136-189: the building-group request returns
RefetchGroups ==
    /\ pc = "groups"
    /\ \E resp \in EngineGroupResponses :
         LET r == get_building_groups(resp)
             period == locals.current_period[1]
             new_id == NewStreetId(r.val[1], r.val[3], locals.street_choosed_ids,
                                   entry.group_name)
         IN  IF r.exc # "none"
             THEN /\ requests' = Append(requests, "groups")
                  /\ locals' = [locals EXCEPT !.errors = @ \cup {"groups"}]
                  /\ UNCHANGED entry
             ELSE /\ requests' = requests \o <<"groups", "persist">>
                  /\ locals' = [locals EXCEPT !.current_street_id = new_id,
                                              !.groups = Some(r.val)]
                  /\ entry' = PersistBaseline(entry, period, new_id,
                                              locals.street_choosed_ids)
    /\ pc' = "fetch"
    /\ UNCHANGED <<schedule_cache, descriptions_cache, coordinator_data,
                   last_update_success, force_building_type_refresh, last,
                   last_good, direct>>

\* lines 218-221
OldSelectedIds(e) ==
    IF e.options_selected_waste_types # None
    THEN e.options_selected_waste_types[1]
    ELSE e.selected_waste_types

\* lines 225-230: old id -> name from coordinator.data
OldIdToName(old_data) ==
    IF old_data = None THEN <<>>
    ELSE LET old_descriptions == old_data[1][2]
         IN  [i \in 1..Len(old_descriptions) |->
                 [k |-> old_descriptions[i].v.id, v |-> old_descriptions[i].k]]


\* NewSelectedIds that selects every category of the new period
NewSelectedIds_All(old_selected_ids, old_data, descriptions) ==
    [i \in 1..Len(descriptions) |-> descriptions[i].v.id]

\* lines 232-237
NewSelectedIds(old_selected_ids, old_data, descriptions) ==
    LET old_id_to_name == OldIdToName(old_data)
        selected_names ==
            {DictGet(old_id_to_name, id) :
                id \in {x \in Range(old_selected_ids) : DictHas(old_id_to_name, x)}}
        kept == SelectSeq(descriptions, LAMBDA e : e.k \in selected_names)
    IN  [i \in 1..Len(kept) |-> kept[i].v.id]

\* lines 216-254: the entry after the selection was re-mapped
RemapSelection(e, old_data, descriptions) ==
    LET old_selected_ids == OldSelectedIds(e)
        new_selected_ids == NewSelectedIds(old_selected_ids, old_data, descriptions)
    IN  IF old_selected_ids # <<>> /\ new_selected_ids # old_selected_ids
        THEN [e EXCEPT !.selected_waste_types = new_selected_ids,
                       !.options_selected_waste_types = Some(new_selected_ids)]
        ELSE e


\* EntryAfterFetch that re-maps the selection in every refresh
EntryAfterFetch_AlwaysRemap(e, refetch, old_data, descriptions) ==
    RemapSelection(e, old_data, descriptions)

\* lines 216-254: the selection is re-mapped only if the period changed or
\* a forced refresh was taken
EntryAfterFetch(e, refetch, old_data, descriptions) ==
    IF refetch THEN RemapSelection(e, old_data, descriptions) ELSE e


\* IsEmptyResult of a refresh that accepts any pair
IsEmptyResult_Never(schedule, descriptions) == FALSE

\* line 209
IsEmptyResult(schedule, descriptions) == schedule = <<>> \/ descriptions = <<>>

\* lines 191-260: the schedule request returns
FetchSchedule ==
    /\ pc = "fetch"
    /\ \E resp \in EngineScheduleResponses :
         LET u == update(resp, schedule_cache, descriptions_cache, <<>>)
             errors == IF u.parsed = None
                       THEN locals.errors \cup {"schedule"} ELSE locals.errors
         IN  /\ requests' = Append(requests, "schedules")
             /\ schedule_cache' = u.sc
             /\ descriptions_cache' = u.dc
             /\ last_good' = IF u.kind = "parsed" THEN u.parsed ELSE last_good
             /\ IF IsEmptyResult(u.ret[1], u.ret[2])
                THEN /\ Fail("empty_data", locals.period, u.kind, errors)
                     /\ UNCHANGED entry
                ELSE /\ Succeed(u.ret, u.kind, errors)
                     /\ entry' = EntryAfterFetch(entry,
                                     locals.period_changed \/ locals.force_refresh,
                                     coordinator_data, u.ret[2])
    /\ UNCHANGED <<force_building_type_refresh, direct>>

\* sensor.py, 'available' of the four sensor classes: lines 279-283, 358-361,
\* 437-440, 554-558
SensorAvailable == coordinator_data # None

\* sensor.py lines 251-256, 340-343: the schedule the sensors compute their
\* values from
SensorSchedule ==
    IF coordinator_data = None THEN None ELSE Some(coordinator_data[1][1])

\* a calendar that is available whenever the sensors are
CalendarAvailable_LikeSensors == coordinator_data # None

\* calendar.py lines 331-334
CalendarAvailable == last_update_success /\ coordinator_data # None

\* The entry is set up again (restart of the host, reload of the entry): a
\* new API object and a new coordinator; the stored entry is kept.
Restart ==
    /\ pc = "idle"
    /\ last.status # "none"
    /\ schedule_cache' = None
    /\ descriptions_cache' = None
    /\ coordinator_data' = None
    /\ last_update_success' = TRUE
    /\ force_building_type_refresh' = FALSE
    /\ locals' = NoLocals
    /\ requests' = <<>>
    /\ last' = NoLast
    /\ last_good' = None
    /\ UNCHANGED <<pc, entry, direct>>

Next ==
    \/ StartRefresh
    \/ async_press
    \/ ResolvePeriod
    \/ RefetchStreets
    \/ RefetchGroups
    \/ FetchSchedule
    \/ Restart

Spec == Init /\ [][Next]_vars

\* ----------------------------------------------------------------------
\* Direct calls of get_current_period (setup wizard, tests): every period
\* list of at most MaxPeriods periods, on several days
\* ----------------------------------------------------------------------

PoolDates == {Date(2024, 1, 1), Date(2024, 6, 30), Date(2024, 7, 1), Date(2024, 12, 31)}

PoolTodays == {Date(2023, 1, 1), Date(2024, 7, 1), Date(2024, 8, 15), Date(2025, 1, 15)}

\* the data model's invariant start_date <= end_date holds of every period
PeriodPool ==
    {p \in {Period(id, start, end) :
                id \in {"A", "B"}, start \in PoolDates, end \in PoolDates} :
        strptime(p.startDate) <= strptime(p.endDate)}
    \cup {Period(Missing, Date(2024, 7, 1), Date(2024, 12, 31))}

PoolPeriodResponses ==
    {TransportFailure, Envelope(FALSE, FALSE, <<>>), Envelope(TRUE, FALSE, <<>>)}
    \cup {Envelope(TRUE, TRUE, ps) : ps \in SeqUpTo(PeriodPool, MaxPeriods)}

CallGetCurrentPeriod ==
    /\ ~cp.called
    /\ \E resp \in PoolPeriodResponses, today \in PoolTodays :
         cp' = [called |-> TRUE, resp |-> resp, today |-> today,
                result |-> get_current_period(resp, today),
                verbose |-> get_current_period_debug(resp, today)]
    /\ UNCHANGED <<schedule_cache, descriptions_cache, entry, coordinator_data,
                   last_update_success, force_building_type_refresh, pc, locals,
                   requests, last, last_good, call, probe, flow>>

NextPeriod == CallGetCurrentPeriod

SpecPeriod == Init /\ [][NextPeriod]_vars

\* ----------------------------------------------------------------------
\* Direct calls of the methods of one API object, in any order
\* ----------------------------------------------------------------------

PayloadOverflow ==
    RawPayload(BothKeys, <<Row("1", 1, 2024, <<5, Huge>>)>>, DescOld)

ApiPayloads == {PayloadOld, PayloadNew, PayloadNoRows, PayloadOverflow}

ApiSelections == {<<>>, <<"1">>}

ApiScheduleResponses ==
    {TransportFailure, Envelope(FALSE, FALSE, EmptyDict), Envelope(FALSE, TRUE, PayloadOld),
     Envelope(TRUE, FALSE, EmptyDict)}
    \cup {Envelope(TRUE, TRUE, p) : p \in ApiPayloads}

ApiTownResponses ==
    {TransportFailure, Envelope(FALSE, FALSE, <<>>), Envelope(TRUE, FALSE, <<>>),
     Envelope(TRUE, TRUE, <<>>), Envelope(TRUE, TRUE, <<[id |-> "t1", name |-> "Town"]>>)}

ApiGroupResponses ==
    EngineGroupResponses
    \cup {Envelope(FALSE, FALSE, <<>>), Envelope(TRUE, FALSE, <<>>)}

ApiCall(op, resp, result) ==
    [NoApiCall EXCEPT !.op = op, !.resp = resp, !.result = result]

\* a call other than the probed one was made after the probe
Between(pr) == IF pr = None THEN None ELSE Some([pr[1] EXCEPT !.between = TRUE])

\* api.parse_schedule(raw, sel) is called on the object
CallParseSchedule ==
    /\ \E raw \in ApiPayloads, sel \in ApiSelections :
         LET c == ParseCall(raw, sel, schedule_cache, descriptions_cache)
             same == probe # None /\ probe[1].raw = raw /\ probe[1].sel = sel
         IN  /\ call' = [NoApiCall EXCEPT !.op = "parse_schedule", !.raw = raw,
                                          !.supplied = TRUE, !.sel = sel,
                                          !.result = c.result]
             /\ schedule_cache' = c.sc
             /\ descriptions_cache' = c.dc
             /\ \/ probe = None
                   /\ probe' = Some([raw |-> raw, sel |-> sel, result |-> c.result,
                                     between |-> FALSE])
                \/ probe' = IF same THEN probe ELSE Between(probe)
    /\ UNCHANGED <<entry, coordinator_data, last_update_success,
                   force_building_type_refresh, pc, locals, requests, last,
                   last_good, cp, flow>>

\* api.update(..., sel) is called on the object
CallUpdate ==
    /\ \E resp \in ApiScheduleResponses, sel \in ApiSelections :
         LET u == update(resp, schedule_cache, descriptions_cache, sel)
         IN  /\ call' = [NoApiCall EXCEPT !.op = "update", !.supplied = TRUE,
                                          !.sel = sel, !.resp = resp,
                                          !.result = Ret(u.ret)]
             /\ schedule_cache' = u.sc
             /\ descriptions_cache' = u.dc
    /\ probe' = Between(probe)
    /\ UNCHANGED <<entry, coordinator_data, last_update_success,
                   force_building_type_refresh, pc, locals, requests, last,
                   last_good, cp, flow>>

\* a call of a method that only sends a request and unwraps the envelope
EndpointCall(op, resp, result) ==
    /\ call' = ApiCall(op, resp, result)
    /\ probe' = Between(probe)
    /\ UNCHANGED <<schedule_cache, descriptions_cache, entry, coordinator_data,
                   last_update_success, force_building_type_refresh, pc, locals,
                   requests, last, last_good, cp, flow>>

CallGetTowns ==
    \E resp \in ApiTownResponses : EndpointCall("get_towns", resp, get_towns(resp))

CallGetSchedulePeriods ==
    \E resp \in EnginePeriodResponses :
        EndpointCall("get_schedule_periods", resp, get_schedule_periods(resp))

CallGetStreets ==
    \E resp \in EngineStreetResponses :
        EndpointCall("get_streets", resp, get_streets(resp))

CallGetBuildingGroups ==
    \E resp \in ApiGroupResponses :
        EndpointCall("get_building_groups", resp, get_building_groups(resp))

CallGetWasteTypes ==
    \E resp \in ApiScheduleResponses :
        EndpointCall("get_waste_types", resp, get_waste_types(resp))

NextApi ==
    \/ CallParseSchedule
    \/ CallUpdate
    \/ CallGetTowns
    \/ CallGetSchedulePeriods
    \/ CallGetStreets
    \/ CallGetBuildingGroups
    \/ CallGetWasteTypes

SpecApi == Init /\ [][NextApi]_vars

\* ----------------------------------------------------------------------
\* config_flow.py: the number, group and waste-type steps of the wizard
\* ----------------------------------------------------------------------

\* one more request was sent; from MaxCounted on the count stays
Counted(n) == IF n < MaxCounted THEN n + 1 ELSE MaxCounted

\* the steps at which an invocation has ended: a form is shown or the entry
\* was created
Resting == {"form_number", "form_group", "form_waste_types", "created"}

\* the steps at which an invocation awaits the answer to a request
Running == {"group", "waste_types"}

WizardFrame ==
    UNCHANGED <<schedule_cache, descriptions_cache, entry, coordinator_data,
                last_update_success, force_building_type_refresh, pc, locals,
                requests, last, last_good, cp, call, probe>>

\* lines 198-200: async_step_number(user_input) stores the number and calls
\* async_step_group()
SubmitNumber ==
    /\ flow.step = "form_number"
    /\ flow' = [flow EXCEPT !.step = "group", !.requests = 0]
    /\ WizardFrame

\* lines 236-252: street id and group name of a street without groups
UngroupedChoice(streets, street_choosed_ids) ==
    IF streets # <<>>
    THEN [street_id |-> streets[1].id, group_name |-> "Default"]
    ELSE [street_id |-> street_choosed_ids, group_name |-> "Default"]

\* lines 224-272: the building-group request of async_step_group() returns
async_step_group ==
    /\ flow.step = "group"
    /\ \E resp \in ApiGroupResponses :
         LET r == get_building_groups(resp)
             choice == UngroupedChoice(r.val[3], flow.street_choosed_ids)
         IN  flow' = IF r.exc # "none"
                     THEN [flow EXCEPT !.step = "form_number",
                                       !.requests = Counted(@)]
                     ELSE IF r.val[1] = <<>>
                     THEN [flow EXCEPT !.step = "waste_types",
                                       !.street_id = choice.street_id,
                                       !.group_name = choice.group_name,
                                       !.requests = Counted(@)]
                     ELSE [flow EXCEPT !.step = "form_group",
                                       !.options = r.val[1],
                                       !.requests = Counted(@)]
    /\ WizardFrame

\* lines 218-222: async_step_group(user_input) stores the chosen group and
\* calls async_step_waste_types()
SubmitGroup ==
    /\ flow.step = "form_group"
    /\ \E i \in 1..Len(flow.options) :
         flow' = [flow EXCEPT !.step = "waste_types",
                              !.group_name = flow.options[i].name,
                              !.street_id = flow.options[i].choosedStreetIds,
                              !.requests = 0]
    /\ WizardFrame

\* lines 302-375: the schedule request of async_step_waste_types() returns
async_step_waste_types ==
    /\ flow.step = "waste_types"
    /\ \E resp \in EngineScheduleResponses :
         LET r == get_waste_types(resp)
             descriptions == IF r.exc = "none" /\ "scheduleDescription" \in r.val.keys
                             THEN r.val.scheduleDescription ELSE <<>>
         IN  flow' = IF r.exc # "none" \/ descriptions = <<>>
                     THEN [flow EXCEPT !.step = "group", !.requests = Counted(@)]
                     ELSE [flow EXCEPT !.step = "form_waste_types",
                                       !.requests = Counted(@)]
    /\ WizardFrame

\* lines 280-298: async_step_waste_types(user_input) creates the entry
SubmitWasteTypes ==
    /\ flow.step = "form_waste_types"
    /\ flow' = [flow EXCEPT !.step = "created", !.requests = 0]
    /\ WizardFrame

NextWizard ==
    \/ SubmitNumber
    \/ async_step_group
    \/ SubmitGroup
    \/ async_step_waste_types
    \/ SubmitWasteTypes

\* the answer to a request that was sent arrives, or the request fails
SpecWizard ==
    /\ Init
    /\ [][NextWizard]_vars
    /\ WF_vars(async_step_group)
    /\ WF_vars(async_step_waste_types)

\* ----------------------------------------------------------------------
\* find_new_street_id called once, on a new object or after one call of
\* update, for every pair of answers to its two requests
\* ----------------------------------------------------------------------

\* street lists for find_new_street_id: also one where only a row of one
\* building carries the name
ApiStreetResponses ==
    EngineStreetResponses
    \cup {Envelope(TRUE, FALSE, <<>>),
          Envelope(TRUE, TRUE, <<Street("s9", "Main", "c9", "5")>>)}

\* the group name recorded at setup, as the provider spells it or not
ApiGroupNames == {"Single", "single", "villa"}

\* api.find_new_street_id(..., street_name, ..., group_name, ...) is called
CallFindNewStreetId ==
    /\ call.op # "find_new_street_id"
    /\ \E sresp \in ApiStreetResponses, gresp \in ApiGroupResponses,
          group_name \in ApiGroupNames :
         call' = [NoApiCall EXCEPT
                    !.op = "find_new_street_id", !.resp = sresp, !.resp2 = gresp,
                    !.group_name = group_name,
                    !.result = find_new_street_id(sresp, gresp, street_name,
                                                  group_name)]
    /\ probe' = Between(probe)
    /\ UNCHANGED <<schedule_cache, descriptions_cache, entry, coordinator_data,
                   last_update_success, force_building_type_refresh, pc, locals,
                   requests, last, last_good, cp, flow>>

\* the object may have served one schedule request before
FirstUpdate == call.op = "none" /\ CallUpdate

NextResolve ==
    \/ FirstUpdate
    \/ CallFindNewStreetId

SpecResolve == Init /\ [][NextResolve]_vars

\* ----------------------------------------------------------------------
\* parse_schedule called once on generated payloads: a first row with every
\* list of at most MaxDays day tokens, followed by a second row
\* ----------------------------------------------------------------------

\* ids "1" and "3" carry the same name once stripped; "4" has a blank name
\* and the last description an empty id
FixtureDescs ==
    <<Desc("1", <<0, "Paper">>, "blue"), Desc("2", <<2, "Glass">>, "green"),
      Desc("3", <<1, "Paper">>, "navy"), Desc("4", <<1, "">>, "grey"),
      Desc("", <<0, "Metal">>, "red")>>

\* February 2024 has 29 days
DayTokens == {5, 12, 29, 30, NonNumeric, Blank, Huge}

FirstRows == {Row("1", 2, 2024, days) : days \in SeqUpTo(DayTokens, MaxDays)}

OtherRows ==
    {Row("3", 2, 2024, <<12, 5>>), Row("2", 1, 2024, <<31, 5>>),
     Row("2", NonNumeric, 2024, <<5>>), Row("4", 2, 2024, <<5>>),
     Row("1", 2, 2023, <<29, 28>>), Row("9", 2, 2024, <<5, Huge>>),
     Row("", 2, 2024, <<12>>)}

FixturePayloads ==
    {RawPayload(BothKeys, <<first, other>>, FixtureDescs) :
        first \in FirstRows, other \in OtherRows}
    \cup {RawPayload(keys, <<Row("1", 2, 2024, <<5>>)>>, FixtureDescs) :
            keys \in {{"schedules"}, {"scheduleDescription"}}}

\* the argument selected_type_ids: not passed, or one of these lists
FixtureSelections == {<<>>, <<"1">>, <<"2", "3">>, <<"9">>}

\* api.parse_schedule(raw) or api.parse_schedule(raw, sel) on a new object
ParseFixture ==
    /\ call.op = "none"
    /\ \E raw \in FixturePayloads, sel \in FixtureSelections, supplied \in BOOLEAN :
         LET c == ParseCall(raw, sel, schedule_cache, descriptions_cache)
         IN  /\ supplied \/ sel = <<>>
             /\ call' = [NoApiCall EXCEPT !.op = "parse_schedule", !.raw = raw,
                                          !.supplied = supplied, !.sel = sel,
                                          !.result = c.result]
             /\ schedule_cache' = c.sc
             /\ descriptions_cache' = c.dc
    /\ UNCHANGED <<entry, coordinator_data, last_update_success,
                   force_building_type_refresh, pc, locals, requests, last,
                   last_good, cp, probe, flow>>

NextParse == ParseFixture

\* parse_schedule reads nothing of the stored entry: one entry
InitParse == Init /\ entry.selected_waste_types = <<>>

SpecParse == InitParse /\ [][NextParse]_vars

\* ----------------------------------------------------------------------
\* Properties of get_current_period
\* ----------------------------------------------------------------------

\* calendar order of two date strings, by year, then month, then day
DateLeq(a, b) ==
    \/ a[1] < b[1]
    \/ a[1] = b[1] /\ a[2] < b[2]
    \/ a[1] = b[1] /\ a[2] = b[2] /\ a[3] <= b[3]

DateLess(a, b) == DateLeq(a, b) /\ a # b

Contains(p, day) == DateLeq(p.startDate, day) /\ DateLeq(day, p.endDate)

\* the periods the provider listed in the call recorded in cp
Listed ==
    IF cp.resp.kind = "json" /\ cp.resp.success /\ cp.resp.has_data
    THEN Range(cp.resp.data) ELSE {}

Returned == cp.called /\ cp.result.exc = "none"

\* C8: whenever at least one listed period contains today, get_current_period
\* returns a listed period that contains today, whatever else is listed and in
\* whatever order.
C8_ContainingPeriodReturned ==
    (cp.called /\ \E p \in Listed : Contains(p, cp.today))
        => /\ Returned
           /\ cp.result.val # None
           /\ cp.result.val[1] \in Listed
           /\ Contains(cp.result.val[1], cp.today)

\* a containing period listed after a past and before a future period
C8_Witness ==
    /\ Returned
    /\ Len(cp.resp.data) >= 2
    /\ \E p \in Listed : Contains(p, cp.today)
    /\ \E p \in Listed : ~Contains(p, cp.today)
    /\ ~Contains(cp.resp.data[1], cp.today)
    /\ Contains(cp.result.val[1], cp.today)

\* C9: when no listed period contains today, the result is a period with the
\* greatest end date among those that ended before today if there is one, even
\* when future periods are listed; otherwise it is a period with the earliest
\* start date.
C9_FallbackPeriod ==
    (cp.called /\ Listed # {} /\ \A p \in Listed : ~Contains(p, cp.today))
        => /\ Returned
           /\ cp.result.val # None
           /\ LET res == cp.result.val[1]
                  Past == {p \in Listed : DateLess(p.endDate, cp.today)}
              IN  /\ res \in Listed
                  /\ Past # {} =>
                        /\ res \in Past
                        /\ \A p \in Past : DateLeq(p.endDate, res.endDate)
                  /\ Past = {} =>
                        \A p \in Listed : DateLeq(res.startDate, p.startDate)

\* two past periods with different end dates, the older one listed first
C9_Witness ==
    /\ Returned
    /\ Len(cp.resp.data) >= 2
    /\ \A p \in Listed : DateLess(p.endDate, cp.today)
    /\ DateLess(cp.resp.data[1].endDate, cp.resp.data[2].endDate)
    /\ cp.result.val = Some(cp.resp.data[2])

\* C10: get_current_period returns nothing exactly when the provider lists no
\* period (an empty list or a success=false envelope); for a non-empty list it
\* returns one of the listed periods.
C10_NothingIffNoPeriods ==
    cp.called =>
        /\ (Returned /\ cp.result.val = None)
              <=> /\ cp.resp.kind = "json"
                  /\ \/ ~cp.resp.success
                     \/ cp.resp.has_data /\ cp.resp.data = <<>>
        /\ Listed # {} => /\ Returned
                          /\ cp.result.val # None
                          /\ cp.result.val[1] \in Listed

\* only future periods are listed and one of them is returned
C10_Witness ==
    /\ Returned
    /\ Listed # {}
    /\ \A p \in Listed : DateLess(cp.today, p.startDate)
    /\ cp.result.val # None

\* ----------------------------------------------------------------------
\* Properties of the refresh
\* ----------------------------------------------------------------------

\* a step that ends a refresh
EndsRefresh == pc # "idle" /\ pc' = "idle"

CachedPair == <<schedule_cache[1], descriptions_cache[1]>>

HasCache == Truthy(schedule_cache) /\ Truthy(descriptions_cache)

\* C1: if the refresh before obtained a non-empty pair and the schedule
\* request of this refresh fails at transport level, this refresh succeeds and
\* returns exactly that pair; the data of the coordinator and the caches stay
\* as they were.
C1_CacheFallbackOnTransportError ==
    [][(EndsRefresh /\ last'.fetch = "transport_error"
            /\ last_update_success /\ coordinator_data # None)
        => /\ last'.status = "ok"
           /\ last'.ret = coordinator_data
           /\ coordinator_data' = coordinator_data
           /\ schedule_cache' = schedule_cache
           /\ descriptions_cache' = descriptions_cache]_vars

C1_Witness ==
    /\ last.fetch = "transport_error"
    /\ last.prev_ok
    /\ last.status = "ok"
    /\ last.ret = coordinator_data

\* C2: the caches always hold the most recent non-empty pair that was parsed:
\* no failed request and no parse with an empty result changes them.
C2_CacheHoldsLastGoodPair ==
    last_good # None =>
        /\ schedule_cache = Some(last_good[1][1])
        /\ descriptions_cache = Some(last_good[1][2])

\* C3: if an earlier request produced a non-empty pair and the current request
\* is answered but parses to an empty schedule or empty descriptions, the
\* refresh returns the pair obtained earlier.
C3_EmptyParseReturnsCache ==
    (last.fetch = "parsed_empty" /\ last_good # None)
        => /\ last.status = "ok"
           /\ last.ret = last_good

C5_NoEmptySuccess ==
    /\ last.status = "ok"
          => /\ last.ret # None
             /\ last.ret[1][1] # <<>>
             /\ last.ret[1][2] # <<>>
    /\ coordinator_data # None
          => /\ coordinator_data[1][1] # <<>>
             /\ coordinator_data[1][2] # <<>>
    /\ (last.fetch \in {"parsed_empty", "empty_response"} /\ ~last.had_cache)
          => /\ last.status = "failed"
             /\ last.ret = None

C5_Witness ==
    /\ last.fetch = "parsed_empty"
    /\ ~last.had_cache
    /\ last.status = "failed"
    /\ last.message = "empty_data"

\* C6: when get_current_period returns nothing, the refresh fails and returns
\* no pair, even if the caches are set; only the period request was issued;
\* the entry (period id and bounds, street id, selection) and the data of the
\* coordinator stay as they were.
C6_NoActivePeriodIsFatal ==
    [][(EndsRefresh /\ last'.period = "nothing")
        => /\ last'.status = "failed"
           /\ last'.ret = None
           /\ requests' = <<"periods">>
           /\ entry' = entry
           /\ coordinator_data' = coordinator_data]_vars

C6_Witness ==
    /\ last.period = "nothing"
    /\ last.had_cache
    /\ last.status = "failed"
    /\ requests = <<"periods">>

\* the selection the entry holds: that of entry.options if set, else that of
\* entry.data
PersistedSelection(e) ==
    IF e.options_selected_waste_types = None
    THEN e.selected_waste_types
    ELSE e.options_selected_waste_types[1]

\* the ids of the categories of new_descriptions whose name is the name, in
\* old_descriptions, of a category whose id is in selection
RemappedIds(selection, old_descriptions, new_descriptions) ==
    {new_descriptions[i].v.id : i \in
        {j \in 1..Len(new_descriptions) :
            \E k \in 1..Len(old_descriptions) :
                /\ old_descriptions[k].v.id \in Range(selection)
                /\ old_descriptions[k].k = new_descriptions[j].k}}

\* C7: when a refresh that found the period changed succeeds and the entry
\* held a non-empty selection, the selection the entry holds afterwards is, as
\* a set, the ids of the returned categories whose name is the name that the
\* previous descriptions give to a previously selected id.
C7_SelectionRemappedByName ==
    [][(EndsRefresh /\ last'.status = "ok" /\ last'.refetched
            /\ coordinator_data # None /\ PersistedSelection(entry) # <<>>)
        => /\ Range(PersistedSelection(entry')) =
                 RemappedIds(PersistedSelection(entry), coordinator_data[1][2],
                             coordinator_data'[1][2])
           /\ Range(entry'.selected_waste_types) = Range(PersistedSelection(entry'))]_vars

\* the case of the spec: Paper 1 -> 7, Glass dropped, Metal not added
C7_Witness ==
    /\ last.status = "ok"
    /\ last.refetched
    /\ last.had_data
    /\ last.fetch = "parsed"
    /\ entry.selected_waste_types = <<"7">>
    /\ entry.options_selected_waste_types = Some(<<"7">>)
    /\ DictKeys(coordinator_data[1][2]) = {"Paper", "Metal"}

\* ----------------------------------------------------------------------
\* Properties of the period list
\* ----------------------------------------------------------------------

\* C11: only periods whose start date begins with the year of today are
\* listed, so the period get_current_period returns starts in the year of
\* today.
C11_OnlyCurrentYearPeriods ==
    (Returned /\ cp.result.val # None)
        => cp.result.val[1].startDate[1] = cp.today[1]

\* ----------------------------------------------------------------------
\* Properties of parse_schedule
\* ----------------------------------------------------------------------

\* the recorded call is a call of parse_schedule that returned
Parsed == call.op = "parse_schedule" /\ call.result.exc = "none"

ParsedSchedule == call.result.val[1]

ParsedDescriptions == call.result.val[2]

\* C12: in the schedule parse_schedule returns, the date list of every
\* category is strictly ascending in calendar order, so it has no duplicate,
\* whatever the payload and the selection.
C12_DatesStrictlyAscending ==
    Parsed =>
        \A c \in 1..Len(ParsedSchedule) :
            LET dates == ParsedSchedule[c].v
            IN  \A i, j \in 1..Len(dates) : i < j => DateLess(dates[i], dates[j])

\* the rows of one category give the 12th, the 5th, the 12th and the 5th
C12_Witness ==
    /\ Parsed
    /\ call.raw.schedules[1].days = <<12, 5>>
    /\ call.raw.schedules[2] = Row("3", 2, 2024, <<12, 5>>)
    /\ DictHas(ParsedSchedule, "Paper")
    /\ DictGet(ParsedSchedule, "Paper") = <<Date(2024, 2, 5), Date(2024, 2, 12)>>

\* the ';'-lists with the same day tokens as days, in any order and with any
\* repetition, of at most MaxDays + 1 tokens
Variants(days) ==
    {v \in SeqUpTo(Range(days), MaxDays + 1) : Range(v) = Range(days)}

WithDays(raw_data, i, days) == [raw_data EXCEPT !.schedules[i].days = days]

\* two calls of parse_schedule ended alike and returned the same schedule
SameSchedule(a, b) == a.exc = b.exc /\ (a.exc = "none" => a.val[1] = b.val[1])

\* C13: replacing the day list of any row of the payload by a list of the
\* same tokens in another order or with tokens repeated gives the same date
\* list for every category.
C13_DayOrderAndRepeatsIrrelevant ==
    call.op = "parse_schedule" =>
        \A i \in 1..Len(call.raw.schedules) :
            \A v \in Variants(call.raw.schedules[i].days) :
                SameSchedule(ParseCall(WithDays(call.raw, i, v), call.sel,
                                       None, None).result,
                             call.result)

\* the 12th listed before the 5th, and a row that repeats the 5th
C13_Witness ==
    /\ Parsed
    /\ call.raw.schedules[1].days \in {<<12, 5>>, <<5, 5>>}
    /\ call.raw.schedules[2] = Row("2", 1, 2024, <<31, 5>>)
    /\ DictGet(ParsedSchedule, "Paper") \in
           {<<Date(2024, 2, 5), Date(2024, 2, 12)>>, <<Date(2024, 2, 5)>>}
    /\ DictGet(ParsedSchedule, "Glass") = <<Date(2024, 1, 5), Date(2024, 1, 31)>>

\* the names of the categories of the unfiltered output of the recorded call
\* whose id is in the selection of the call
SelectedOfFull ==
    LET full == parse_schedule(call.raw, <<>>)[2]
    IN  {full[i].k : i \in {j \in 1..Len(full) : full[j].v.id \in Range(call.sel)}}

\* C14: when a selection is passed, the empty one included, the categories of
\* the returned schedule and of the returned descriptions are exactly the
\* categories of the unfiltered output whose id is in the selection.
C14_FilterIsIntersection ==
    (Parsed /\ call.supplied) =>
        /\ DictKeys(ParsedSchedule) = SelectedOfFull
        /\ DictKeys(ParsedDescriptions) = SelectedOfFull

\* the rows of the payload that belong to the category name
RowsOf(raw_data, name) ==
    LET by_id == descriptions_by_id(raw_data.scheduleDescription)
    IN  {i \in 1..Len(raw_data.schedules) :
            /\ DictHas(by_id, raw_data.schedules[i].scheduleDescriptionId)
            /\ DictGet(by_id, raw_data.schedules[i].scheduleDescriptionId).name = name}

\* the dates that the day tokens of row stand for: the tokens that are
\* numbers and days of the month of the row
DatesOfValidTokens(row) ==
    IF IsInt(row.month) /\ IsInt(row.year)
    THEN {Date(row.year, row.month, row.days[i]) : i \in
            {j \in 1..Len(row.days) :
                /\ IsInt(row.days[j])
                /\ row.days[j] # Huge
                /\ ValidDate(row.year, row.month, row.days[j])}}
    ELSE {}

\* C15: parse_schedule raises nothing, and the dates of every category it
\* returns are exactly the dates of the valid day tokens of the rows of the
\* category: a token that is no number or no day of the month removes only
\* its own date.
C15_MalformedDaySkipsOnlyItself ==
    (call.op = "parse_schedule" /\ BothKeys \subseteq call.raw.keys) =>
        /\ call.result.exc = "none"
        /\ \A c \in 1..Len(ParsedSchedule) :
              Range(ParsedSchedule[c].v) =
                  UNION {DatesOfValidTokens(call.raw.schedules[i]) :
                            i \in RowsOf(call.raw, ParsedSchedule[c].k)}

\* C16: a call of parse_schedule changes no state of the API object: both
\* caches are after the call what they were before it.
C16_ParseLeavesCacheUnchanged ==
    [][CallParseSchedule
        => /\ schedule_cache' = schedule_cache
           /\ descriptions_cache' = descriptions_cache]_vars

\* the recorded call is a call of parse_schedule with the input of the probe
SameAsProbe ==
    /\ probe # None
    /\ call.op = "parse_schedule"
    /\ call.raw = probe[1].raw
    /\ call.sel = probe[1].sel

\* C17: a call of parse_schedule returns what an earlier call with the same
\* payload and the same selection returned on the same object, whatever was
\* called on the object in between.
C17_ParseIsDeterministic ==
    SameAsProbe => call.result = probe[1].result

\* the payload without rows parsed again after other calls filled the caches
C17_Witness ==
    /\ SameAsProbe
    /\ probe[1].between
    /\ probe[1].raw = PayloadNoRows
    /\ call.result = Ret(<<<<>>, <<>>>>)

\* ----------------------------------------------------------------------
\* Properties of the failure report
\* ----------------------------------------------------------------------

\* C18: a failed refresh whose schedule request failed at transport level is
\* reported as a communication error; a refresh reported as a communication
\* error met an exception of a request; a failed refresh whose requests were
\* all answered but gave no period or no schedule data is reported as a
\* no-data condition.
C18_FailureKindsDistinguished ==
    last.status = "failed" =>
        /\ last.fetch = "transport_error" => last.message = "communication"
        /\ last.message = "communication" => last.errors # {}
        /\ (last.errors = {} /\ (last.period = "nothing"
                                   \/ last.fetch \in {"empty_response", "parsed_empty"}))
              => last.message \in {"no_period", "empty_data"}

\* ----------------------------------------------------------------------
\* Properties of the endpoint methods
\* ----------------------------------------------------------------------

EndpointOps ==
    {"get_towns", "get_schedule_periods", "get_streets", "get_building_groups",
     "get_waste_types"}

\* the empty collection of each endpoint method
EmptyResult(op) ==
    IF op = "get_waste_types" THEN EmptyDict
    ELSE IF op = "get_building_groups" THEN <<<<>>, None, <<>>>>
    ELSE <<>>

\* C20: an endpoint method whose request is answered by an envelope with
\* success=false, or with success=true and no data field, returns its empty
\* collection and raises nothing.
C20_EnvelopeWithoutResultsIsEmpty ==
    (call.op \in EndpointOps /\ call.resp.kind = "json"
        /\ (~call.resp.success \/ ~call.resp.has_data))
        => /\ call.result.exc = "none"
           /\ call.result.val = EmptyResult(call.op)

\* ----------------------------------------------------------------------
\* Properties of the debug flag
\* ----------------------------------------------------------------------

\* C21: for the same response of the provider, get_current_period returns
\* the same period or raises the same error on an API object with the debug
\* flag set as on one without it.
C21_DebugFlagNonInterference ==
    cp.called => cp.verbose = cp.result

\* ----------------------------------------------------------------------
\* Properties of the re-resolution of the street id
\* ----------------------------------------------------------------------

\* C22: when the schedule request parses to an empty result and there is no
\* cache, the refresh goes on to recover the street id: it looks the street
\* up again after the schedule request and requests the schedule once more.
C22_RecoveryAfterEmptyParse ==
    (last.status # "none" /\ last.fetch = "parsed_empty" /\ ~last.had_cache)
        => \E i, j \in 1..Len(requests) :
              /\ i < j
              /\ requests[i] = "schedules"
              /\ requests[j] = "streets"

\* C23: a refresh never succeeds with a parsed schedule that holds not a
\* single collection date.
C23_NoDatesIsEmptyData ==
    (last.status = "ok" /\ last.fetch = "parsed")
        => \E i \in 1..Len(last.ret[1][1]) : last.ret[1][1][i].v # <<>>

\* the period get_current_period returned to the refresh in progress
Resolved == locals.current_period[1]

\* the fields of the stored baseline: period id and bounds, street id
Baseline(e) ==
    <<e.period_id, e.period_start, e.period_end, e.period_change_date, e.street_id>>

\* the step at which the refresh writes the new baseline
Persists == "persist" \notin Range(requests) /\ "persist" \in Range(requests')

\* C24 as stated: a refresh issues the street request and the building-group
\* request if and only if the resolved period id differs from the stored one
\* or a forced refresh was requested; otherwise it leaves the stored period
\* id and bounds, the street id and the selection unchanged.
C24_BothLookupsIffPeriodChanged ==
    [][(EndsRefresh /\ last'.period = "found")
        => /\ last'.refetched
                <=> {"streets", "groups"} \subseteq Range(requests')
           /\ ~last'.refetched => entry' = entry]_vars

\* C24 amended: after the period was resolved the refresh issues the street
\* request if and only if the resolved period id differs from the stored one
\* or a forced refresh was requested; the building-group request is issued
\* only after that street request and only if it returned a row with the
\* configured name. A refresh without the street request issues the period
\* and the schedule request only and leaves the whole entry (period id and
\* bounds, street id, selection) unchanged.
C24_StreetLookupIffPeriodChanged ==
    [][/\ (pc = "period" /\ pc' # "idle")
            => /\ pc' = "streets"
                    <=> \/ locals'.current_period[1].id # entry.period_id
                        \/ force_building_type_refresh
               /\ pc' # "streets" => pc' = "fetch"
               /\ entry' = entry
       /\ (pc = "streets" /\ pc' = "groups")
            <=> /\ pc = "streets"
                /\ locals'.streets # None
                /\ \E i \in 1..Len(locals'.streets[1]) :
                      locals'.streets[1][i].name = street_name
       /\ pc' = "groups" => pc = "streets"
       /\ (EndsRefresh /\ "streets" \notin Range(requests'))
            => /\ requests' \in {<<"periods">>, <<"periods", "schedules">>}
               /\ entry' = entry]_vars

\* a refresh that met a new period, found no row for the street, issued no
\* building-group request and went on to a successful schedule request
C24_Witness ==
    /\ last.status = "ok"
    /\ last.refetched
    /\ requests = <<"periods", "streets", "schedules">>

C26_PeriodIdPersistedWhateverTheOutcome ==
    [][(EndsRefresh /\ last'.period = "found" /\ last'.refetched)
        => entry'.period_id = Resolved.id]_vars

\* C26 amended: after a refresh that found a changed period id and whose
\* street lookup returned a row with the configured name and whose
\* building-group lookup returned, whatever the outcome of the schedule
\* request, the stored period id equals the resolved period id, and a refresh
\* that resolves the stored period id, with no forced request, goes straight
\* to the schedule request. If the street lookup or the building-group lookup
\* raised or found no row, the stored period id stays the old one.
C26_NoRedundantReresolution ==
    [][/\ (EndsRefresh /\ "persist" \in Range(requests'))
            => entry'.period_id = Resolved.id
       /\ (EndsRefresh /\ "streets" \in Range(requests')
                       /\ "persist" \notin Range(requests'))
            => /\ entry'.period_id = entry.period_id
               /\ entry'.period_id # Resolved.id
       /\ (pc = "period" /\ pc' # "idle"
               /\ locals'.current_period[1].id = entry.period_id
               /\ ~force_building_type_refresh)
            => /\ pc' = "fetch"
               /\ requests' = <<"periods">>]_vars

\* a refresh that resolved period B, stored by an earlier refresh, and issued
\* the schedule request at once
C26_Witness ==
    /\ last.status # "none"
    /\ last.period = "found"
    /\ ~last.refetched
    /\ requests = <<"periods", "schedules">>
    /\ entry.period_id = PeriodB.id

\* C27: when the building-group response carries no groups and a non-empty
\* list of streets, get_building_groups returns no groups together with that
\* list of streets.
C27_UngroupedStreetsReturned ==
    (/\ call.op = "get_building_groups"
     /\ call.resp.kind = "json"
     /\ call.resp.success
     /\ call.resp.has_data
     /\ call.resp.data.groups = <<>>
     /\ call.resp.data.streets # <<>>)
        => /\ call.result.exc = "none"
           /\ call.result.val[1] = <<>>
           /\ call.result.val[3] = call.resp.data.streets

\* the positions of the rows of a list that carry exactly the given name
Named(rows, name) == {i \in 1..Len(rows) : rows[i].name = name}

First(S) == CHOOSE i \in S : \A j \in S : i <= j

\* C28: in the re-resolution of a refresh the street is the first row whose
\* name is exactly the configured name; when the provider returns groups, the
\* new street id is that of the first group whose name is the recorded group
\* name, and that of the first group if no group carries the name; no step
\* changes the recorded group name.
C28_GroupSelectedByRecordedName ==
    [][/\ entry'.group_name = entry.group_name
       /\ (pc = "streets" /\ locals'.streets # None)
            => LET rows == locals'.streets[1]
                   named == Named(rows, street_name)
               IN  IF named = {}
                   THEN pc' = "fetch"
                   ELSE /\ pc' = "groups"
                        /\ locals'.street_choosed_ids =
                              rows[First(named)].choosedStreetIds
       /\ (pc = "groups" /\ locals'.groups # None /\ locals'.groups[1][1] # <<>>)
            => LET groups == locals'.groups[1][1]
                   named == Named(groups, entry.group_name)
                   chosen == IF named # {} THEN First(named) ELSE 1
               IN  /\ Persists
                   /\ entry'.street_id = groups[chosen].choosedStreetIds]_vars

\* the street row with the exact name stood after one that differs in case,
\* and the group with the recorded name stood after another group
C28_Witness ==
    /\ pc = "fetch"
    /\ locals.streets # None
    /\ Len(locals.streets[1]) = 2
    /\ locals.streets[1][1].name # street_name
    /\ locals.street_choosed_ids = "c1"
    /\ locals.groups # None
    /\ Len(locals.groups[1][1]) = 2
    /\ locals.groups[1][1][2].name = entry.group_name
    /\ entry.street_id = "g2"

\* C29: whenever several rows of the street list carry the configured name
\* and one of them has empty numbers, the re-resolution of the refresh goes
\* on with a row that has empty numbers.
C29_GeneralRowPreferred ==
    (pc = "groups" /\ locals.streets # None)
        => LET rows == locals.streets[1]
               general == {i \in Named(rows, street_name) : rows[i].numbers = ""}
           IN  general # {}
                  => \E i \in general :
                        locals.street_choosed_ids = rows[i].choosedStreetIds

\* the rows the streets request of the recorded call returned that carry the
\* configured name up to case
RowsWithName ==
    IF call.resp.kind = "json" /\ call.resp.success /\ call.resp.has_data
    THEN {i \in 1..Len(call.resp.data) :
             lower(call.resp.data[i].name) = lower(street_name)}
    ELSE {}

\* the building-group request of the recorded call returned groups
GroupsReturned ==
    /\ call.resp2.kind = "json"
    /\ call.resp2.success
    /\ call.resp2.has_data
    /\ call.resp2.data.has_groups
    /\ call.resp2.data.groups # <<>>

\* C30: when a row of the street list carries the configured name up to
\* case, be it a row of one building only, find_new_street_id goes on to the
\* groups and returns a street id.
C30_SpecificRowUsedWithoutGeneral ==
    (call.op = "find_new_street_id" /\ RowsWithName # {} /\ GroupsReturned)
        => call.result.val # None

\* ----------------------------------------------------------------------
\* Properties of find_new_street_id
\* ----------------------------------------------------------------------

\* the streets request of the recorded call returned a row with empty numbers
\* that carries the configured name up to case
StreetFound ==
    \E i \in RowsWithName : call.resp.data[i].numbers = ""

\* the provider answered the building-group request of the recorded call
GroupsAnswered ==
    call.resp2.kind = "json" /\ call.resp2.success /\ call.resp2.has_data

\* the positions of the groups whose name is the given name up to case
NamedUpToCase(groups, name) ==
    {i \in 1..Len(groups) : lower(groups[i].name) = lower(name)}

\* C31: once the street is found, find_new_street_id returns the id of the
\* first group whose name is the recorded group name up to case, the id of
\* the first group if no group carries the name, and the id of the first
\* entry of the streets list of the answer if the answer has no groups.
C31_GroupChoiceOfRecovery ==
    (call.op = "find_new_street_id" /\ StreetFound /\ GroupsAnswered)
        => LET groups == call.resp2.data.groups
               streets == call.resp2.data.streets
               named == NamedUpToCase(groups, call.group_name)
           IN  /\ (groups # <<>> /\ named # {})
                    => call.result.val = Some(groups[First(named)].choosedStreetIds)
               /\ (groups # <<>> /\ named = {})
                    => call.result.val = Some(groups[1].choosedStreetIds)
               /\ (groups = <<>> /\ streets # <<>>)
                    => call.result.val = Some(streets[1].id)

\* ----------------------------------------------------------------------
\* Properties of the categories parse_schedule returns
\* ----------------------------------------------------------------------

\* the description rows of the payload of the recorded call that enter the
\* index: those with an id and a name that is not blank
IndexedDescs ==
    LET descs == call.raw.scheduleDescription
    IN  {i \in 1..Len(descs) : descs[i].id # "" /\ strip(descs[i].name) # ""}

\* the indexed description rows with the given name
DescsNamed(name) ==
    {i \in IndexedDescs : strip(call.raw.scheduleDescription[i].name) = name}

\* the schedule rows of the payload that refer to a description row in D
RowsReferring(D) ==
    {r \in 1..Len(call.raw.schedules) :
        \E i \in D : call.raw.schedules[r].scheduleDescriptionId =
                        call.raw.scheduleDescription[i].id}

\* the number of entries of the ordered dict d under key
Occurrences(d, key) == Cardinality({i \in 1..Len(d) : d[i].k = key})

\* C32: when two description rows with different ids carry the same trimmed
\* name, parse_schedule returns at most one category of that name; its dates
\* are the dates of the schedule rows that refer to either id, its
\* description carries the id and the colour of the first of the description
\* rows, and without a selection it is returned whenever a row refers to one
\* of the ids.
C32_SameNameMerged ==
    (Parsed /\ BothKeys \subseteq call.raw.keys) =>
        \A i, j \in IndexedDescs :
            LET descs == call.raw.scheduleDescription
                name == strip(descs[i].name)
                rows == RowsReferring(DescsNamed(name))
            IN  (i < j /\ descs[i].id # descs[j].id /\ strip(descs[j].name) = name)
                  => /\ Occurrences(ParsedSchedule, name) <= 1
                     /\ Occurrences(ParsedDescriptions, name) <= 1
                     /\ DictHas(ParsedSchedule, name)
                          => /\ Range(DictGet(ParsedSchedule, name)) =
                                   UNION {DatesOfValidTokens(call.raw.schedules[r]) :
                                             r \in rows}
                             /\ DictGet(ParsedDescriptions, name).id =
                                   descs[First(DescsNamed(name))].id
                             /\ DictGet(ParsedDescriptions, name).color =
                                   descs[First(DescsNamed(name))].color
                     /\ (call.sel = <<>> /\ rows # {})
                          => DictHas(ParsedSchedule, name)

\* a row of id "1" with the 29th and a row of id "3" with the 12th and the
\* 5th, both named Paper, give one category with the three dates and id "1"
C32_Witness ==
    /\ Parsed
    /\ call.raw.schedules[1] = Row("1", 2, 2024, <<29>>)
    /\ call.raw.schedules[2] = Row("3", 2, 2024, <<12, 5>>)
    /\ Occurrences(ParsedSchedule, "Paper") = 1
    /\ DictGet(ParsedSchedule, "Paper") =
          <<Date(2024, 2, 5), Date(2024, 2, 12), Date(2024, 2, 29)>>
    /\ DictGet(ParsedDescriptions, "Paper") = [id |-> "1", color |-> "blue"]

\* the schedule rows of the payload whose id is not in the description index
UnknownRows ==
    {r \in 1..Len(call.raw.schedules) : r \notin RowsReferring(IndexedDescs)}

\* the payload of the recorded call without the rows of unknown id
WithoutUnknownRows ==
    [call.raw EXCEPT !.schedules =
        SelectSeq(call.raw.schedules,
                  LAMBDA row : \E i \in IndexedDescs :
                      row.scheduleDescriptionId = call.raw.scheduleDescription[i].id)]

\* C33: a schedule row whose id is not in the description index, be it the
\* id of a description row skipped for its empty id or its blank name, adds
\* no category and no date: every returned category is named by an indexed
\* description row, and the call ends and returns as it does for the payload
\* without these rows.
C33_UnknownRowsContributeNothing ==
    (call.op = "parse_schedule" /\ BothKeys \subseteq call.raw.keys) =>
        /\ Parsed =>
              \A c \in 1..Len(ParsedSchedule) : DescsNamed(ParsedSchedule[c].k) # {}
        /\ ParseCall(WithoutUnknownRows, call.sel, None, None).result = call.result

\* a row of the description with the blank name, of the description with no
\* id or of an id that no description has, after a row of Paper
C33_Witness ==
    /\ Parsed
    /\ call.raw.schedules[1] = Row("1", 2, 2024, <<5, 12>>)
    /\ UnknownRows = {2}
    /\ call.sel = <<>>
    /\ DictKeys(ParsedSchedule) = {"Paper"}
    /\ DictGet(ParsedSchedule, "Paper") = <<Date(2024, 2, 5), Date(2024, 2, 12)>>

\* the keys of the ordered dict d in their order
KeyList(d) == [i \in 1..Len(d) |-> d[i].k]

\* C34: for every payload and every selection, the schedule and the
\* descriptions parse_schedule returns have the same keys, in the same order
\* and each once.
C34_SameKeysInScheduleAndDescriptions ==
    Parsed =>
        /\ KeyList(ParsedSchedule) = KeyList(ParsedDescriptions)
        /\ \A i, j \in 1..Len(ParsedSchedule) :
              ParsedSchedule[i].k = ParsedSchedule[j].k => i = j

\* Paper and Glass were parsed and the selection kept Glass only
C34_Witness ==
    /\ Parsed
    /\ call.sel = <<"2", "3">>
    /\ Len(call.raw.schedules) = 2
    /\ call.raw.schedules[1] = Row("1", 2, 2024, <<5>>)
    /\ call.raw.schedules[2] = Row("2", 1, 2024, <<31, 5>>)
    /\ KeyList(ParsedSchedule) = <<"Glass">>
    /\ KeyList(ParsedDescriptions) = <<"Glass">>

\* ----------------------------------------------------------------------
\* Properties of the selection and of the entities
\* ----------------------------------------------------------------------

\* C35: when a refresh that holds no data of an earlier refresh handles a
\* period change or a forced refresh, it leaves a non-empty persisted
\* selection as it was.
C35_SelectionKeptWithoutOldData ==
    [][(EndsRefresh /\ last'.refetched /\ coordinator_data = None
            /\ PersistedSelection(entry) # <<>>)
        => PersistedSelection(entry') = PersistedSelection(entry)]_vars

\* the ids of the categories of an ordered dict of descriptions
IdsOf(descriptions) == {descriptions[i].v.id : i \in 1..Len(descriptions)}

\* C36: once the new period is persisted, the first refresh that returns
\* descriptions other than those held leaves as persisted selection the
\* name-based remap of the selection held before, also when it is not the
\* refresh that found the period changed.
C36_SelectionFollowsNewDescriptions ==
    [][(EndsRefresh /\ last'.status = "ok" /\ last'.fetch = "parsed"
            /\ entry.period_id = PeriodB.id
            /\ coordinator_data # None
            /\ coordinator_data'[1][2] # coordinator_data[1][2]
            /\ PersistedSelection(entry) # <<>>
            /\ Range(PersistedSelection(entry)) \subseteq IdsOf(coordinator_data[1][2]))
        => Range(PersistedSelection(entry')) =
              RemappedIds(PersistedSelection(entry), coordinator_data[1][2],
                          coordinator_data'[1][2])]_vars

\* C37: a refresh started by the refresh button looks the street and the
\* building type up again, also when the period id has not changed.
C37_PressForcesReresolution ==
    (pc = "fetch" /\ locals.trigger = "button")
        => "streets" \in Range(requests)

\* C38: every invocation of a step of the wizard ends by showing a form or
\* creating the entry, whatever the provider answers.
C38_WizardStepsTerminate ==
    (flow.step \in Running) ~> (flow.step \in Resting)

\* the step is a call of find_new_street_id
FindsNewStreetId == call.op # "find_new_street_id" /\ call'.op = "find_new_street_id"

\* the ids the answer to the building-group request carries
IdsOffered(resp) ==
    IF resp.kind = "json" /\ resp.success /\ resp.has_data
    THEN {resp.data.groups[i].choosedStreetIds : i \in 1..Len(resp.data.groups)}
         \cup {resp.data.streets[i].id : i \in 1..Len(resp.data.streets)}
    ELSE {}

\* C39: whatever the provider answers, a call of find_new_street_id raises
\* nothing and returns None or an id of the answer to the building-group
\* request, None if one of its requests raised; it leaves both caches and
\* the entry as they were.
C39_RecoveryNeverRaises ==
    [][FindsNewStreetId
        => /\ call'.result.exc = "none"
           /\ \/ call'.result.val = None
              \/ /\ Len(call'.result.val) = 1
                 /\ call'.result.val[1] \in IdsOffered(call'.resp2)
           /\ (get_streets(call'.resp).exc # "none"
                 \/ call'.resp2.kind = "transport_error")
                 => call'.result.val = None
           /\ schedule_cache' = schedule_cache
           /\ descriptions_cache' = descriptions_cache
           /\ entry' = entry]_vars

\* the streets request answered success without data (KeyError inside
\* get_streets) on an object whose caches are set
C39_Witness ==
    /\ call.op = "find_new_street_id"
    /\ call.resp = Envelope(TRUE, FALSE, <<>>)
    /\ call.result = Ret(None)
    /\ Truthy(schedule_cache)
    /\ Truthy(descriptions_cache)

====
